---- MODULE Spec2Model ----
(***************************************************************************)
(* Mesh lines of optools.mesh: the three uniform families, the two         *)
(* adaptive families, their views (division, density, resolution, loss),   *)
(* their points and their withers.                                         *)
(*                                                                         *)
(* Numbers are exact rationals [n |-> numerator, d |-> denominator > 0],   *)
(* always in lowest terms, so that two numbers are equal exactly when      *)
(* their records are equal.  A raised exception is the record              *)
(* [err |-> name]; it propagates through every arithmetic operator, as a   *)
(* Python exception propagates through every expression.                   *)
(***************************************************************************)
EXTENDS Integers, Sequences, FiniteSets, TLC

VARIABLES
    mesh,   \* the mesh the next call is made on
    recv,   \* the receiver (self) of the last call
    call,   \* the last call: its name and its arguments
    ret,    \* what the last call returned or raised
    objs,   \* the meshes of a chain of withers, the first mesh first,
            \* each as it is now; empty when no chain is followed
    learner, \* the learner of the evaluate call in progress, or None
    pc      \* where that call is: "idle", "running" or "done"

vars == <<mesh, recv, call, ret, objs, learner, pc>>

----------------------------------------------------------------------------
(* Bounds of the model *)

\* start and stop range over MinCoord..MaxCoord
MaxCoord == 2
\* a call whose result has more points than this is not taken
MaxDivision == 4
\* density and resolution arguments range over k/2, k in 0..MaxHalves
MaxHalves == 3

MinCoord == 0 - 1
\* a chain of withers is followed for at most MaxChain calls
MaxChain == 2
\* a learner is fed at most MaxSamples points
MaxSamples == 5

----------------------------------------------------------------------------
(* Python values *)

None == [none |-> TRUE]

ZeroDivisionError == [err |-> "ZeroDivisionError"]

IsErr(x) == "err" \in DOMAIN x

RECURSIVE GCD(_, _)
GCD(a, b) ==
    IF b = 0 THEN a ELSE CHOOSE g \in {GCD(b, r) : r \in {a % b}} : TRUE

IAbs(i) == IF i < 0 THEN 0 - i ELSE i

\* the rational n/d, d # 0, in lowest terms with a positive denominator
Rat(n, d) ==
    LET g == GCD(IAbs(n), IAbs(d))
        s == IF d < 0 THEN 0 - 1 ELSE 1
    IN  [n |-> (s * n) \div g, d |-> (s * d) \div g]

int(i) == [n |-> i, d |-> 1]

\* a + b
Add(a, b) ==
    IF IsErr(a) THEN a ELSE IF IsErr(b) THEN b
    ELSE Rat(a.n * b.d + b.n * a.d, a.d * b.d)

\* a - b
Sub(a, b) ==
    IF IsErr(a) THEN a ELSE IF IsErr(b) THEN b
    ELSE Rat(a.n * b.d - b.n * a.d, a.d * b.d)

\* a * b
Mul(a, b) ==
    IF IsErr(a) THEN a ELSE IF IsErr(b) THEN b
    ELSE Rat(a.n * b.n, a.d * b.d)

\* a / b: Python's true division raises ZeroDivisionError when b == 0
TrueDiv(a, b) ==
    IF IsErr(a) THEN a ELSE IF IsErr(b) THEN b
    ELSE IF b.n = 0 THEN ZeroDivisionError
    ELSE Rat(a.n * b.d, a.d * b.n)

\* a < b, for two numbers
Lt(a, b) == a.n * b.d < b.n * a.d

Le(a, b) == a.n * b.d <= b.n * a.d

\* abs(a)
abs(a) == IF IsErr(a) THEN a ELSE [n |-> IAbs(a.n), d |-> a.d]

\* max(a, b) and min(a, b) of Python: the first argument unless the second
\* is strictly larger (resp. smaller)
max(a, b) == IF Lt(a, b) THEN b ELSE a

min(a, b) == IF Lt(b, a) THEN b ELSE a

\* math.ceil: the smallest integer not below a
ceil(a) == IF IsErr(a) THEN a ELSE int(0 - ((0 - a.n) \div a.d))

----------------------------------------------------------------------------
(* optools.utils *)

\* clip with the maximum applied first and the minimum second
clip_maxfirst(value, minv, maxv) ==
    LET v1 == IF maxv # None THEN min(value, maxv) ELSE value
    IN  IF minv # None THEN max(v1, minv) ELSE v1

\* clip with the two bounds taken the wrong way round
clip_swapped(value, minv, maxv) ==
    LET v1 == IF minv # None THEN min(value, minv) ELSE value
    IN  IF maxv # None THEN max(v1, maxv) ELSE v1

clip(value, minv, maxv) ==
    LET v1 == IF minv # None THEN max(value, minv) ELSE value
    IN  IF maxv # None THEN min(v1, maxv) ELSE v1

----------------------------------------------------------------------------
(* Classes.  An instance is [cls, start, stop, params, binding]: params    *)
(* holds the parameters the class stores, binding is None or the field of  *)
(* the container the instance was read from.                               *)

UniformClasses ==
    {"DivisionUniformMeshLine", "DensityUniformMeshLine",
     "ResolutionUniformMeshLine"}

AdaptiveClasses == {"DivisionAdaptiveMeshLine", "LossAdaptiveMeshLine"}

MeshClasses == UniformClasses \cup AdaptiveClasses

\* DivisionUniformMeshLine.division = Parameter(default=1000)
UniformDefaultDivision == 1000

\* DensityUniformMeshLine.density = Parameter(default=1000)
UniformDefaultDensity == 1000

\* ResolutionUniformMeshLine.resolution = Parameter(default=1e-3)
UniformDefaultResolution == Rat(1, 1000)

\* AdaptiveMeshLine.division = Parameter(default=1000)
AdaptiveDefaultDivision == 1000

\* AdaptiveMeshLine.loss = Parameter(default=0.01)
AdaptiveDefaultLoss == Rat(1, 100)

\* kwargs[name] if given, else the parameter's default
Param(kwargs, name, default) ==
    IF name \in DOMAIN kwargs THEN kwargs[name] ELSE default

\* The constructors, called with keyword arguments
DivisionUniformMeshLine(kwargs) ==
    [cls |-> "DivisionUniformMeshLine",
     start |-> kwargs.start, stop |-> kwargs.stop,
     params |-> [division |->
                    Param(kwargs, "division", int(UniformDefaultDivision))],
     binding |-> None]

DensityUniformMeshLine(kwargs) ==
    [cls |-> "DensityUniformMeshLine",
     start |-> kwargs.start, stop |-> kwargs.stop,
     params |-> [density |->
                    Param(kwargs, "density", int(UniformDefaultDensity))],
     binding |-> None]

ResolutionUniformMeshLine(kwargs) ==
    [cls |-> "ResolutionUniformMeshLine",
     start |-> kwargs.start, stop |-> kwargs.stop,
     params |-> [resolution |->
                    Param(kwargs, "resolution", UniformDefaultResolution)],
     binding |-> None]

\* an adaptive mesh stores both division and loss; the one not given takes
\* its declared default
DivisionAdaptiveMeshLine(kwargs) ==
    [cls |-> "DivisionAdaptiveMeshLine",
     start |-> kwargs.start, stop |-> kwargs.stop,
     params |-> [division |->
                    Param(kwargs, "division", int(AdaptiveDefaultDivision)),
                 loss |-> Param(kwargs, "loss", AdaptiveDefaultLoss)],
     binding |-> None]

LossAdaptiveMeshLine(kwargs) ==
    [cls |-> "LossAdaptiveMeshLine",
     start |-> kwargs.start, stop |-> kwargs.stop,
     params |-> [division |->
                    Param(kwargs, "division", int(AdaptiveDefaultDivision)),
                 loss |-> Param(kwargs, "loss", AdaptiveDefaultLoss)],
     binding |-> None]

\* self.__class__(**params): a fresh instance, self forgotten
CopyWith_fresh(self, kwargs) ==
    CASE self.cls = "DivisionUniformMeshLine" ->
            DivisionUniformMeshLine(kwargs)
      [] self.cls = "DensityUniformMeshLine" ->
            DensityUniformMeshLine(kwargs)
      [] self.cls = "ResolutionUniformMeshLine" ->
            ResolutionUniformMeshLine(kwargs)
      [] self.cls = "DivisionAdaptiveMeshLine" ->
            DivisionAdaptiveMeshLine(kwargs)
      [] OTHER -> LossAdaptiveMeshLine(kwargs)

\* self.__class__(self, **params): a copy of self, the given parameters
\* replaced
CopyWith(self, kwargs) ==
    [self EXCEPT !.start = kwargs.start, !.stop = kwargs.stop,
                 !.binding = None]

\* A container object with one field, mesh, as in the tests' TestObject.
\* Reading the field gives the mesh bound to that field.
TestObject(m) == [cls |-> "TestObject", mesh |-> m]

FieldBinding == [owner |-> "TestObject", name |-> "mesh"]

\* obj.mesh
GetMesh(obj) == [obj.mesh EXCEPT !.binding = FieldBinding]

\* binding.transfer(newobj): a new container whose bound field is newobj
transfer(binding, newobj) == TestObject(newobj)

----------------------------------------------------------------------------
(* Views *)

\* MeshLine.length
length(self) == abs(Sub(self.stop, self.start))

\* the point count computed by dividing by 1 / length
DensityUniformMeshLine_division_bylength(self) ==
    ceil(Add(TrueDiv(self.params.density, TrueDiv(int(1), length(self))),
             int(1)))

\* the point count truncated instead of rounded up past the endpoint
DensityUniformMeshLine_division_floor(self) ==
    LET x == Mul(self.params.density, length(self))
    IN  int(x.n \div x.d)

DensityUniformMeshLine_division(self) ==
    ceil(Add(Mul(self.params.density, length(self)), int(1)))

\* the point count without the endpoint's + 1
ResolutionUniformMeshLine_division_intervals(self) ==
    ceil(TrueDiv(length(self), self.params.resolution))

ResolutionUniformMeshLine_division(self) ==
    ceil(Add(TrueDiv(length(self), self.params.resolution), int(1)))

\* self.division
division(self) ==
    CASE self.cls = "DensityUniformMeshLine" ->
            DensityUniformMeshLine_division(self)
      [] self.cls = "ResolutionUniformMeshLine" ->
            ResolutionUniformMeshLine_division(self)
      [] OTHER -> self.params.division

DivisionUniformMeshLine_density(self) ==
    TrueDiv(self.params.division, length(self))

ResolutionUniformMeshLine_density(self) ==
    TrueDiv(division(self), length(self))

\* self.density, on a uniform mesh
density(self) ==
    CASE self.cls = "DivisionUniformMeshLine" ->
            DivisionUniformMeshLine_density(self)
      [] self.cls = "ResolutionUniformMeshLine" ->
            ResolutionUniformMeshLine_density(self)
      [] OTHER -> self.params.density

\* the resolution as the gap between points: length over intervals
DivisionUniformMeshLine_resolution_intervals(self) ==
    TrueDiv(length(self), Sub(self.params.division, int(1)))

DivisionUniformMeshLine_resolution(self) ==
    TrueDiv(length(self), self.params.division)

DensityUniformMeshLine_resolution(self) ==
    TrueDiv(length(self), division(self))

\* self.resolution, on a uniform mesh
resolution(self) ==
    CASE self.cls = "DivisionUniformMeshLine" ->
            DivisionUniformMeshLine_resolution(self)
      [] self.cls = "DensityUniformMeshLine" ->
            DensityUniformMeshLine_resolution(self)
      [] OTHER -> self.params.resolution

\* self.loss, on an adaptive mesh
loss(self) == self.params.loss

\* linspace without its endpoint: num samples of step (stop - start) / num
linspace_open(start, stop, num) ==
    LET delta == Sub(stop, start)
        step  == IF num > 0 THEN TrueDiv(delta, int(num)) ELSE delta
    IN  [i \in 1..num |-> Add(Mul(int(i - 1), step), start)]

\* numpy.linspace(start, stop, num), endpoint included: num samples
\* start + i * step with step = (stop - start) / (num - 1), the last one
\* set to stop; [start] when num == 1 and [] when num == 0
linspace(start, stop, num) ==
    LET div   == num - 1
        delta == Sub(stop, start)
        step  == IF div > 0 THEN TrueDiv(delta, int(div)) ELSE delta
    IN  [i \in 1..num |->
            IF num > 1 /\ i = num THEN stop
            ELSE Add(Mul(int(i - 1), step), start)]

\* UniformMeshLine.points
points(self) ==
    IF IsErr(division(self)) THEN division(self)
    ELSE [array |-> linspace(self.start, self.stop, division(self).n)]

----------------------------------------------------------------------------
(* Withers *)

\* with_params that looks for density before division
UniformMeshLine_with_params_densityfirst(self, kwargs) ==
    LET p1     == IF "start" \notin DOMAIN kwargs
                  THEN kwargs @@ [start |-> self.start] ELSE kwargs
        params == IF "stop" \notin DOMAIN p1
                  THEN p1 @@ [stop |-> self.stop] ELSE p1
        newobj == IF "density" \in DOMAIN params
                      THEN DensityUniformMeshLine(params)
                  ELSE IF "division" \in DOMAIN params
                      THEN DivisionUniformMeshLine(params)
                  ELSE IF "resolution" \in DOMAIN params
                      THEN ResolutionUniformMeshLine(params)
                  ELSE CopyWith(self, params)
    IN  IF self.binding # None THEN transfer(self.binding, newobj)
        ELSE newobj

\* with_params that fills a missing stop with the receiver's start
UniformMeshLine_with_params_collapsed(self, kwargs) ==
    LET p1     == IF "start" \notin DOMAIN kwargs
                  THEN kwargs @@ [start |-> self.start] ELSE kwargs
        params == IF "stop" \notin DOMAIN p1
                  THEN p1 @@ [stop |-> self.start] ELSE p1
        newobj == IF "division" \in DOMAIN params
                      THEN DivisionUniformMeshLine(params)
                  ELSE IF "density" \in DOMAIN params
                      THEN DensityUniformMeshLine(params)
                  ELSE IF "resolution" \in DOMAIN params
                      THEN ResolutionUniformMeshLine(params)
                  ELSE CopyWith(self, params)
    IN  IF self.binding # None THEN transfer(self.binding, newobj)
        ELSE newobj

\* with_params with the density branch building the division family
UniformMeshLine_with_params_misrouted(self, kwargs) ==
    LET p1     == IF "start" \notin DOMAIN kwargs
                  THEN kwargs @@ [start |-> self.start] ELSE kwargs
        params == IF "stop" \notin DOMAIN p1
                  THEN p1 @@ [stop |-> self.stop] ELSE p1
        newobj == IF "division" \in DOMAIN params
                      THEN DivisionUniformMeshLine(params)
                  ELSE IF "density" \in DOMAIN params
                      THEN ResolutionUniformMeshLine(params)
                  ELSE IF "resolution" \in DOMAIN params
                      THEN DensityUniformMeshLine(params)
                  ELSE CopyWith(self, params)
    IN  IF self.binding # None THEN transfer(self.binding, newobj)
        ELSE newobj

\* with_params that returns the new mesh whatever the binding
UniformMeshLine_with_params_detached(self, kwargs) ==
    LET p1     == IF "start" \notin DOMAIN kwargs
                  THEN kwargs @@ [start |-> self.start] ELSE kwargs
        params == IF "stop" \notin DOMAIN p1
                  THEN p1 @@ [stop |-> self.stop] ELSE p1
    IN  IF "division" \in DOMAIN params
            THEN DivisionUniformMeshLine(params)
        ELSE IF "density" \in DOMAIN params
            THEN DensityUniformMeshLine(params)
        ELSE IF "resolution" \in DOMAIN params
            THEN ResolutionUniformMeshLine(params)
        ELSE CopyWith(self, params)

UniformMeshLine_with_params(self, kwargs) ==
    LET p1     == IF "start" \notin DOMAIN kwargs
                  THEN kwargs @@ [start |-> self.start] ELSE kwargs
        params == IF "stop" \notin DOMAIN p1
                  THEN p1 @@ [stop |-> self.stop] ELSE p1
        newobj == IF "division" \in DOMAIN params
                      THEN DivisionUniformMeshLine(params)
                  ELSE IF "density" \in DOMAIN params
                      THEN DensityUniformMeshLine(params)
                  ELSE IF "resolution" \in DOMAIN params
                      THEN ResolutionUniformMeshLine(params)
                  ELSE CopyWith(self, params)
    IN  IF self.binding # None THEN transfer(self.binding, newobj)
        ELSE newobj

UniformMeshLine_with_division(self, value, min_division, max_division) ==
    LET v == IF value = None THEN division(self) ELSE value
    IN  IF IsErr(v) THEN v
        ELSE UniformMeshLine_with_params(self,
                [division |-> clip(v, min_division, max_division)])

UniformMeshLine_with_density(self, value, min_density, max_density) ==
    LET v == IF value = None THEN density(self) ELSE value
    IN  IF IsErr(v) THEN v
        ELSE UniformMeshLine_with_params(self,
                [density |-> clip(v, min_density, max_density)])

UniformMeshLine_with_resolution(self, value, min_resolution, max_resolution) ==
    LET v == IF value = None THEN resolution(self) ELSE value
    IN  IF IsErr(v) THEN v
        ELSE UniformMeshLine_with_params(self,
                [resolution |-> clip(v, min_resolution, max_resolution)])

\* with_params that keeps the receiver's class whatever is overridden
AdaptiveMeshLine_with_params_sameclass(self, kwargs) ==
    LET p1     == IF "start" \notin DOMAIN kwargs
                  THEN kwargs @@ [start |-> self.start] ELSE kwargs
        params == IF "stop" \notin DOMAIN p1
                  THEN p1 @@ [stop |-> self.stop] ELSE p1
        newobj == IF self.cls = "DivisionAdaptiveMeshLine"
                      THEN DivisionAdaptiveMeshLine(params)
                  ELSE LossAdaptiveMeshLine(params)
    IN  IF self.binding # None THEN transfer(self.binding, newobj)
        ELSE newobj

AdaptiveMeshLine_with_params(self, kwargs) ==
    LET p1     == IF "start" \notin DOMAIN kwargs
                  THEN kwargs @@ [start |-> self.start] ELSE kwargs
        params == IF "stop" \notin DOMAIN p1
                  THEN p1 @@ [stop |-> self.stop] ELSE p1
        newobj == IF "division" \in DOMAIN params
                      THEN DivisionAdaptiveMeshLine(params)
                  ELSE IF "loss" \in DOMAIN params
                      THEN LossAdaptiveMeshLine(params)
                  ELSE CopyWith(self, params)
    IN  IF self.binding # None THEN transfer(self.binding, newobj)
        ELSE newobj

AdaptiveMeshLine_with_division(self, value, min_division, max_division) ==
    LET v == IF value = None THEN division(self) ELSE value
    IN  AdaptiveMeshLine_with_params(self,
            [division |-> clip(v, min_division, max_division)])

AdaptiveMeshLine_with_loss(self, value, min_loss, max_loss) ==
    LET v == IF value = None THEN loss(self) ELSE value
    IN  AdaptiveMeshLine_with_params(self,
            [loss |-> clip(v, min_loss, max_loss)])

\* self.with_params(**kwargs), by the class of self
with_params(self, kwargs) ==
    IF self.cls \in UniformClasses
    THEN UniformMeshLine_with_params(self, kwargs)
    ELSE AdaptiveMeshLine_with_params(self, kwargs)

\* the withers of MeshLine.start and MeshLine.stop
with_start(self, value) == with_params(self, [start |-> value])

with_stop(self, value) == with_params(self, [stop |-> value])

----------------------------------------------------------------------------
(* The state machine: a mesh is constructed, then views are read and       *)
(* withers are called, each wither on the mesh the previous one produced.  *)

Coords == {int(c) : c \in MinCoord..MaxCoord}

Halves == {Rat(k, 2) : k \in 0..MaxHalves}

DivisionLo == int(2)

DivisionHi == int(3)

DensityLo == Rat(1, 2)

DensityHi == int(1)

ResolutionLo == Rat(1, 2)

ResolutionHi == int(1)

AdaptiveDivisionArgs == {int(2), int(AdaptiveDefaultDivision)}

AdaptiveDivisionLo == int(100)

AdaptiveDivisionHi == int(2000)

LossArgs == {Rat(1, 200), Rat(1, 5)}

LossLo == Rat(1, 100)

LossHi == Rat(1, 10)

Opt(S) == S \cup {None}

\* the ways a wither is called: with nothing, with one of two values, with
\* the receiver's current value cur of the view, with a minimum alone, with
\* a maximum alone, and with both bounds, in either order
WitherCalls(v1, v2, lo, hi, cur) ==
    {<<None, None, None>>, <<v1, None, None>>, <<v2, None, None>>,
     <<None, hi, None>>, <<None, None, lo>>,
     <<v1, lo, hi>>, <<v2, hi, lo>>, <<None, hi, lo>>}
    \cup (IF "n" \in DOMAIN cur THEN {<<cur, None, None>>} ELSE {})

IsContainer(x) == "mesh" \in DOMAIN x

IsMesh(x) == "params" \in DOMAIN x

\* the mesh a wither produced, out of its container when it has one
MeshOf(x) == IF IsContainer(x) THEN x.mesh ELSE x

\* the model keeps to meshes of at most MaxDivision points
Small(m) ==
    IF m.cls \in AdaptiveClasses \/ IsErr(division(m)) THEN TRUE
    ELSE division(m).n <= MaxDivision

Constructed ==
    {DivisionUniformMeshLine([start |-> a, stop |-> b, division |-> v]) :
        a \in Coords, b \in Coords, v \in {int(k) : k \in 0..MaxDivision}}
    \cup
    {DensityUniformMeshLine([start |-> a, stop |-> b, density |-> v]) :
        a \in Coords, b \in Coords, v \in Halves}
    \cup
    {ResolutionUniformMeshLine([start |-> a, stop |-> b, resolution |-> v]) :
        a \in Coords, b \in Coords, v \in Halves}
    \cup
    {DivisionAdaptiveMeshLine([start |-> a, stop |-> b, division |-> v]) :
        a \in Coords, b \in Coords, v \in AdaptiveDivisionArgs}
    \cup
    {LossAdaptiveMeshLine([start |-> a, stop |-> b, loss |-> v]) :
        a \in Coords, b \in Coords, v \in LossArgs}

NoCall == [name |-> "__init__", value |-> None, minv |-> None, maxv |-> None]

Init ==
    /\ \E m \in Constructed :
          /\ Small(m)
          /\ \/ mesh = m
             \/ mesh = GetMesh(TestObject(m))
    /\ recv = None
    /\ call = NoCall
    /\ ret = None
    /\ objs = << >>
    /\ learner = None
    /\ pc = "idle"

\* with_params builds newobj and assigns to nothing else: the meshes made
\* before stay as they are and the new one comes after them
Allocate(heap, newobj) == Append(heap, newobj)

\* the call returned r (or raised it): the next call is made on the mesh
\* it produced
Return(name, value, minv, maxv, r) ==
    /\ Len(objs) <= MaxChain
    /\ IF IsErr(r) THEN TRUE ELSE Small(MeshOf(r))
    /\ recv' = mesh
    /\ call' = [name |-> name, value |-> value, minv |-> minv, maxv |-> maxv]
    /\ ret' = r
    /\ mesh' = IF IsErr(r) THEN mesh
               ELSE IF IsContainer(r) THEN GetMesh(r) ELSE r
    /\ objs' = IF Len(objs) = 0 \/ IsErr(r) THEN objs
               ELSE Allocate(objs, MeshOf(r))
    /\ UNCHANGED <<learner, pc>>

UniformWithDivision ==
    /\ mesh.cls \in UniformClasses
    /\ \E c \in WitherCalls(int(1), int(MaxDivision - 1),
                            DivisionLo, DivisionHi,
                            division(mesh)) :
          Return("with_division", c[1], c[2], c[3],
                 UniformMeshLine_with_division(mesh, c[1], c[2], c[3]))

UniformWithDensity ==
    /\ mesh.cls \in UniformClasses
    /\ \E c \in WitherCalls(Rat(1, 2), Rat(MaxHalves, 2),
                            DensityLo, DensityHi,
                            density(mesh)) :
          Return("with_density", c[1], c[2], c[3],
                 UniformMeshLine_with_density(mesh, c[1], c[2], c[3]))

UniformWithResolution ==
    /\ mesh.cls \in UniformClasses
    /\ \E c \in WitherCalls(Rat(1, 2), Rat(MaxHalves, 2),
                            ResolutionLo, ResolutionHi,
                            resolution(mesh)) :
          Return("with_resolution", c[1], c[2], c[3],
                 UniformMeshLine_with_resolution(mesh, c[1], c[2], c[3]))

AdaptiveWithDivision ==
    /\ mesh.cls \in AdaptiveClasses
    /\ \E c \in WitherCalls(int(2), int(AdaptiveDefaultDivision),
                            AdaptiveDivisionLo, AdaptiveDivisionHi,
                            division(mesh)) :
          Return("with_division", c[1], c[2], c[3],
                 AdaptiveMeshLine_with_division(mesh, c[1], c[2], c[3]))

AdaptiveWithLoss ==
    /\ mesh.cls \in AdaptiveClasses
    /\ \E c \in WitherCalls(Rat(1, 200), Rat(1, 5),
                            LossLo, LossHi,
                            loss(mesh)) :
          Return("with_loss", c[1], c[2], c[3],
                 AdaptiveMeshLine_with_loss(mesh, c[1], c[2], c[3]))

\* the keyword arguments with_params is called with: any of the three
\* views, together or alone, or none
AllOverrides ==
    [division |-> int(2), density |-> Rat(1, 2), resolution |-> int(1)]

Overrides ==
    {[k \in K |-> AllOverrides[k]] :
        K \in SUBSET {"division", "density", "resolution"}}

UniformWithParams ==
    /\ mesh.cls \in UniformClasses
    /\ \E kwargs \in Overrides :
          Return("with_params", [kwargs |-> kwargs], None, None,
                 UniformMeshLine_with_params(mesh, kwargs))

WithStart ==
    /\ mesh.cls \in MeshClasses
    /\ \E v \in Coords :
          Return("with_start", v, None, None, with_start(mesh, v))

WithStop ==
    /\ mesh.cls \in MeshClasses
    /\ \E v \in Coords :
          Return("with_stop", v, None, None, with_stop(mesh, v))

\* reading a view leaves the mesh as it is
Read(name, r) ==
    /\ recv' = mesh
    /\ call' = [name |-> name, value |-> None, minv |-> None, maxv |-> None]
    /\ ret' = r
    /\ mesh' = mesh
    /\ objs' = objs
    /\ UNCHANGED <<learner, pc>>

ReadLength ==
    /\ mesh.cls \in MeshClasses
    /\ Read("length", length(mesh))

ReadDivision ==
    /\ mesh.cls \in MeshClasses
    /\ Read("division", division(mesh))

ReadDensity ==
    /\ mesh.cls \in UniformClasses
    /\ Read("density", density(mesh))

ReadResolution ==
    /\ mesh.cls \in UniformClasses
    /\ Read("resolution", resolution(mesh))

ReadLoss ==
    /\ mesh.cls \in AdaptiveClasses
    /\ Read("loss", loss(mesh))

ReadPoints ==
    /\ mesh.cls \in UniformClasses
    /\ Read("points", points(mesh))

Next ==
    \/ UniformWithDivision
    \/ UniformWithDensity
    \/ UniformWithResolution
    \/ AdaptiveWithDivision
    \/ AdaptiveWithLoss
    \/ UniformWithParams
    \/ WithStart
    \/ WithStop
    \/ ReadLength
    \/ ReadDivision
    \/ ReadDensity
    \/ ReadResolution
    \/ ReadLoss
    \/ ReadPoints

Spec == Init /\ [][Next]_vars

\* A chain of view withers from a first mesh m, every mesh it makes kept;
\* m starts at 0 and stops anywhere, before, at or after its start
InitChain ==
    /\ \E m \in Constructed :
          /\ Small(m)
          /\ m.start = int(0)
          /\ \/ mesh = m
             \/ mesh = GetMesh(TestObject(m))
    /\ recv = None
    /\ call = NoCall
    /\ ret = None
    /\ objs = <<mesh>>
    /\ learner = None
    /\ pc = "idle"

NextChain ==
    \/ UniformWithDivision
    \/ UniformWithDensity
    \/ UniformWithResolution
    \/ AdaptiveWithDivision
    \/ AdaptiveWithLoss

SpecChain == InitChain /\ [][NextChain]_vars

TypeOK ==
    /\ IsMesh(mesh)
    /\ mesh.cls \in UniformClasses \cup AdaptiveClasses

----------------------------------------------------------------------------
(* Adaptive evaluation *)

(* evaluate hands the function and the bounds (start, stop) to a learner   *)
(* and to a runner that feeds it one point at a time until a goal holds.  *)
(* The learner keeps the points it was told with their values, estimates  *)
(* a loss for each interval between neighbouring points, and asks for the *)
(* two bounds first and then for the midpoint of the interval whose loss  *)
(* is highest. The loss of an interval is its length in the plane, x and  *)
(* y each scaled by the extent of the data; it is kept here as its        *)
(* square, and compared with the square of the goal.                      *)
(* An intermediate value is named by drawing it from a one-element set,   *)
(* v \in {e}, so that it is computed once wherever it is used.            *)

\* the functions handed to evaluate, named
Functions == {"identity", "square", "constant", "step"}

\* function(x)
Apply(f, x) ==
    CASE f = "identity" -> x
      [] f = "square"   -> Mul(x, x)
      [] f = "constant" -> int(1)
      [] f = "step"     -> IF Lt(int(0), x) THEN int(1) ELSE int(0)

\* adaptive.Learner1D(function=func, bounds=(a, b))
Learner1D(function, bounds) ==
    [function |-> function, bounds |-> bounds, data |-> {}]

\* learner.npoints
npoints(l) == Cardinality(l.data)

\* the entries of the data, by ascending x
RECURSIVE SortedByX(_)
SortedByX(data) ==
    IF data = {} THEN << >>
    ELSE CHOOSE pts \in
             {<<first>> \o SortedByX(data \ {first}) :
                 first \in {r \in data : \A q \in data : Le(r.x, q.x)}} :
             TRUE

\* the extent of the values told, or 1 when they are all equal
yscale(l) ==
    LET hi == CHOOSE r \in l.data : \A q \in l.data : Le(q.y, r.y)
        lo == CHOOSE r \in l.data : \A q \in l.data : Le(r.y, q.y)
    IN  IF hi.y = lo.y THEN int(1) ELSE Sub(hi.y, lo.y)

xscale(l) == Sub(l.bounds.hi, l.bounds.lo)

\* the squared loss of the interval from the point p to the point q
default_loss(l, p, q) ==
    CHOOSE loss2 \in {Add(Mul(dx, dx), Mul(dy, dy)) :
                         dx \in {TrueDiv(Sub(q.x, p.x), xscale(l))},
                         dy \in {TrueDiv(Sub(q.y, p.y), yscale(l))}} : TRUE

\* the squared loss of each interval of pts, from the i-th on
RECURSIVE LossesFrom(_, _, _)
LossesFrom(l, pts, i) ==
    IF i >= Len(pts) THEN << >>
    ELSE <<default_loss(l, pts[i], pts[i + 1])>> \o LossesFrom(l, pts, i + 1)

\* the squared loss of each interval, from left to right
losses(l) ==
    CHOOSE ls \in {LossesFrom(l, pts, 1) : pts \in {SortedByX(l.data)}} : TRUE

\* the intervals whose loss is above the goal
Above(l, goal) ==
    UNION {{i \in DOMAIN ls : Lt(goal2, ls[i])} :
              ls \in {losses(l)}, goal2 \in {Mul(goal, goal)}}

\* learner.loss() <= goal; the loss is infinite while there is no interval
LossAtMost(l, goal) ==
    /\ npoints(l) >= 2
    /\ Above(l, goal) = {}

\* learner.ask(1)
ask(l) ==
    LET xs == {r.x : r \in l.data}
    IN  IF l.bounds.lo \notin xs THEN l.bounds.lo
        ELSE IF l.bounds.hi \notin xs THEN l.bounds.hi
        ELSE CHOOSE x \in
                 {TrueDiv(Add(pts[best].x, pts[best + 1].x), int(2)) :
                     pts \in {SortedByX(l.data)},
                     best \in UNION {{i \in DOMAIN ls :
                                        \A j \in DOMAIN ls :
                                            /\ Le(ls[j], ls[i])
                                            /\ (j < i => Lt(ls[j], ls[i]))} :
                                     ls \in {losses(l)}}} : TRUE

\* learner.tell(x, y)
tell(l, x, y) ==
    IF x \in {r.x : r \in l.data} THEN l
    ELSE [l EXCEPT !.data = @ \cup {[x |-> x, y |-> y]}]

\* learner.to_numpy(): one row (x, y) per point, by ascending x
to_numpy(l) ==
    LET pts == SortedByX(l.data)
    IN  [array |-> [i \in 1..Len(pts) |-> <<pts[i].x, pts[i].y>>]]

\* a.T, for an array of rows of two entries
T(a) ==
    [array |-> <<[i \in 1..Len(a.array) |-> a.array[i][1]],
                 [i \in 1..Len(a.array) |-> a.array[i][2]]>>]

\* runner.simple(learner, npoints_goal=n) stops when this holds
npoints_goal(l, n) == npoints(l) >= n.n

\* runner.simple(learner, loss_goal=g) stops when this holds
loss_goal(l, g) == LossAtMost(l, g)

\* the learner evaluate builds
evaluate_learner(self, func) ==
    Learner1D(func, [lo |-> self.start, hi |-> self.stop])

\* the goal of a division mesh, one point late
DivisionAdaptiveMeshLine_run_learner_late(self, l) ==
    npoints_goal(l, Add(self.params.division, int(1)))

\* DivisionAdaptiveMeshLine._run_learner: the goal it gives the runner
DivisionAdaptiveMeshLine_run_learner(self, l) ==
    npoints_goal(l, self.params.division)

\* the goal of a loss mesh, on the point count instead of the loss
LossAdaptiveMeshLine_run_learner_bydivision(self, l) ==
    npoints_goal(l, self.params.division)

\* LossAdaptiveMeshLine._run_learner: the goal it gives the runner
LossAdaptiveMeshLine_run_learner(self, l) ==
    loss_goal(l, self.params.loss)

\* self._run_learner's goal
run_learner_goal(self, l) ==
    IF self.cls = "DivisionAdaptiveMeshLine"
    THEN DivisionAdaptiveMeshLine_run_learner(self, l)
    ELSE LossAdaptiveMeshLine_run_learner(self, l)

\* what evaluate returns, without the transposition
evaluate_return_rows(l) == to_numpy(l)

\* return learner.to_numpy().T
evaluate_return(l) == T(to_numpy(l))

\* The meshes evaluate is called on: adaptive, from start to a later stop
EvalGoals == {int(2), int(1), Rat(3, 4), Rat(1, 2)}

EvalMeshes ==
    {DivisionAdaptiveMeshLine([start |-> a, stop |-> b, division |-> int(n)]) :
        a \in Coords, b \in Coords, n \in 1..MaxSamples}
    \cup
    {LossAdaptiveMeshLine([start |-> a, stop |-> b, loss |-> g]) :
        a \in Coords, b \in Coords, g \in EvalGoals}
    \cup
    {LossAdaptiveMeshLine([start |-> a, stop |-> b, loss |-> g,
                           division |-> int(2)]) :
        a \in Coords, b \in Coords, g \in EvalGoals}

InitEval ==
    /\ mesh \in {m \in EvalMeshes : Lt(m.start, m.stop)}
    /\ recv = None
    /\ call = NoCall
    /\ ret = None
    /\ objs = << >>
    /\ learner = None
    /\ pc = "idle"

\* evaluate(func) is called: the learner is built and handed to the runner
EvaluateStart ==
    /\ pc = "idle"
    /\ \E func \in Functions :
          /\ learner' = evaluate_learner(mesh, func)
          /\ call' = [name |-> "evaluate", value |-> [function |-> func],
                      minv |-> None, maxv |-> None]
    /\ recv' = mesh
    /\ ret' = None
    /\ pc' = "running"
    /\ UNCHANGED <<mesh, objs>>

\* one turn of the runner's loop: the goal does not hold, a point is asked
\* for, the function is called on it and the learner is told the value
RunnerStep ==
    /\ pc = "running"
    /\ ~run_learner_goal(recv, learner)
    /\ npoints(learner) < MaxSamples
    /\ \E x \in {ask(learner)} :
          \E y \in {Apply(learner.function, x)} :
             learner' = tell(learner, x, y)
    /\ UNCHANGED <<mesh, recv, call, ret, objs, pc>>

\* the goal holds: the runner returns, and evaluate after it
EvaluateReturn ==
    /\ pc = "running"
    /\ run_learner_goal(recv, learner)
    /\ ret' = evaluate_return(learner)
    /\ pc' = "done"
    /\ UNCHANGED <<mesh, recv, call, objs, learner>>

NextEval ==
    \/ EvaluateStart
    \/ RunnerStep
    \/ EvaluateReturn

SpecEval == InitEval /\ [][NextEval]_vars

\* evaluate is a synchronous call: once made it runs until it returns
SpecEvalFair ==
    SpecEval /\ WF_vars(RunnerStep) /\ WF_vars(EvaluateReturn)

----------------------------------------------------------------------------
(* Vocabulary of the properties *)

Zero == int(0)

IsNum(x) == "n" \in DOMAIN x

\* the last call was a read of the view `name` on a mesh of class cls
ReadOn(name, cls) == call.name = name /\ recv.cls = cls

\* the gaps between adjacent entries of an array, in order
Gaps(a) == [i \in 1..(Len(a) - 1) |-> Sub(a[i + 1], a[i])]

Withers == {"with_division", "with_density", "with_resolution", "with_loss"}

\* the view a wither is named after, read on the mesh m
ViewOf(name, m) ==
    CASE name = "with_division"   -> division(m)
      [] name = "with_density"    -> density(m)
      [] name = "with_resolution" -> resolution(m)
      [] name = "with_loss"       -> loss(m)

\* the concrete family a wither of that name builds from a mesh of class c
FamilyOf(name, c) ==
    CASE name = "with_division" /\ c \in UniformClasses ->
            "DivisionUniformMeshLine"
      [] name = "with_division" /\ c \in AdaptiveClasses ->
            "DivisionAdaptiveMeshLine"
      [] name = "with_density"    -> "DensityUniformMeshLine"
      [] name = "with_resolution" -> "ResolutionUniformMeshLine"
      [] name = "with_loss"       -> "LossAdaptiveMeshLine"

----------------------------------------------------------------------------
(* C1: the points of a DivisionUniformMeshLine with start != stop and      *)
(* division >= 2 are exactly division many, begin at start, end at stop,  *)
(* have one common gap between neighbours, and are strictly increasing    *)
(* when start < stop and strictly decreasing when start > stop.           *)
C1_DivisionPoints ==
    (/\ ReadOn("points", "DivisionUniformMeshLine")
     /\ recv.start # recv.stop
     /\ recv.params.division.n >= 2)
    => LET a == ret.array
           n == recv.params.division.n
           g == Gaps(a)
       IN  /\ Len(a) = n
           /\ a[1] = recv.start
           /\ a[n] = recv.stop
           /\ \A i \in 1..(n - 1) : g[i] = g[1]
           /\ Lt(recv.start, recv.stop) => \A i \in 1..(n - 1) : Lt(Zero, g[i])
           /\ Lt(recv.stop, recv.start) => \A i \in 1..(n - 1) : Lt(g[i], Zero)

\* a decreasing mesh of at least three points has been read
C1_Witness ==
    /\ ReadOn("points", "DivisionUniformMeshLine")
    /\ Lt(recv.stop, recv.start)
    /\ recv.params.division.n >= 3
    /\ Len(ret.array) >= 3

(* C2: a DensityUniformMeshLine of density d > 0 over a length L > 0 has   *)
(* division ceil(d * L + 1), and division / L is at least d.               *)
C2_DensityNeverUnderSampled ==
    (/\ ReadOn("division", "DensityUniformMeshLine")
     /\ Lt(Zero, recv.params.density)
     /\ Lt(Zero, length(recv)))
    => /\ IsNum(ret)
       /\ ret = ceil(Add(Mul(recv.params.density, length(recv)), int(1)))
       /\ Le(recv.params.density, TrueDiv(ret, length(recv)))

\* a division was derived from a density whose product with the length is
\* not an integer
C2_Witness ==
    /\ ReadOn("division", "DensityUniformMeshLine")
    /\ Lt(Zero, length(recv))
    /\ Lt(Zero, recv.params.density)
    /\ Mul(recv.params.density, length(recv)).d # 1
    /\ IsNum(ret)

(* C3: a ResolutionUniformMeshLine of resolution r > 0 over a length       *)
(* L > 0 has division ceil(L / r + 1), L / division is at most r, and no  *)
(* two adjacent points are further apart than r.                          *)
C3_ResolutionNeverExceeded ==
    (/\ ReadOn("points", "ResolutionUniformMeshLine")
     /\ Lt(Zero, recv.params.resolution)
     /\ Lt(Zero, length(recv)))
    => LET r == recv.params.resolution
           L == length(recv)
           n == division(recv)
       IN  /\ n = ceil(Add(TrueDiv(L, r), int(1)))
           /\ Le(TrueDiv(L, n), r)
           /\ Len(ret.array) = n.n
           /\ \A i \in 1..(n.n - 1) : Le(abs(Gaps(ret.array)[i]), r)

\* points were read where the resolution does not divide the length
C3_Witness ==
    /\ ReadOn("points", "ResolutionUniformMeshLine")
    /\ Lt(Zero, recv.params.resolution)
    /\ Lt(Zero, length(recv))
    /\ TrueDiv(length(recv), recv.params.resolution).d # 1
    /\ Len(ret.array) >= 3

\* the larger and the smaller of two numbers
NumMax(a, b) == IF Le(a, b) THEN b ELSE a

NumMin(a, b) == IF Le(a, b) THEN a ELSE b

(* C4: a wither called without a value and with one bound M gives a mesh   *)
(* whose view is max(self.view, M) for a minimum and min(self.view, M)    *)
(* for a maximum, self.view being the receiver's current value of the     *)
(* view, owned or derived; when reading self.view raises, the wither      *)
(* raises the same error.                                                 *)
C4_SingleBoundClamp ==
    (/\ call.name \in Withers
     /\ call.value = None
     /\ (call.minv = None) # (call.maxv = None))
    => LET cur == ViewOf(call.name, recv)
       IN  IF IsErr(cur) THEN ret = cur
           ELSE /\ ~IsErr(ret)
                /\ ViewOf(call.name, MeshOf(ret)) =
                      (IF call.minv # None THEN NumMax(cur, call.minv)
                       ELSE NumMin(cur, call.maxv))

\* a derived density below the minimum was raised to the minimum
C4_Witness ==
    /\ call.name = "with_density"
    /\ recv.cls = "DivisionUniformMeshLine"
    /\ call.value = None /\ call.minv # None /\ call.maxv = None
    /\ IsNum(density(recv))
    /\ Lt(density(recv), call.minv)
    /\ IsMesh(ret)
    /\ ret.params.density = call.minv

UniformWithers == {"with_division", "with_density", "with_resolution"}

(* C5: on an unbound uniform mesh, with_division(x), with_density(x) and   *)
(* with_resolution(x) without bounds return a mesh of the family of the   *)
(* named view whose view is x; with x the receiver's own division, the    *)
(* division of the result is the receiver's.                              *)
C5_UniformFamilySwitch ==
    (/\ call.name \in UniformWithers
     /\ recv.cls \in UniformClasses
     /\ recv.binding = None
     /\ call.value # None /\ call.minv = None /\ call.maxv = None)
    => /\ IsMesh(ret)
       /\ ret.cls = FamilyOf(call.name, recv.cls)
       /\ ViewOf(call.name, ret) = call.value
       /\ (call.name = "with_division" /\ call.value = division(recv))
            => division(ret) = division(recv)

\* a resolution mesh was re-expressed through its own derived division
C5_Witness ==
    /\ call.name = "with_division"
    /\ recv.cls = "ResolutionUniformMeshLine"
    /\ recv.binding = None
    /\ call.value = division(recv) /\ call.minv = None /\ call.maxv = None
    /\ IsMesh(ret)
    /\ ret.cls = "DivisionUniformMeshLine"

(* C6: on an unbound adaptive mesh of either family, with_division(n)     *)
(* without bounds returns a DivisionAdaptiveMeshLine of division n and    *)
(* with_loss(l) a LossAdaptiveMeshLine of loss l, with the receiver's     *)
(* start and stop.                                                        *)
C6_AdaptiveFamilySwitch ==
    (/\ call.name \in {"with_division", "with_loss"}
     /\ recv.cls \in AdaptiveClasses
     /\ recv.binding = None
     /\ call.value # None /\ call.minv = None /\ call.maxv = None)
    => /\ IsMesh(ret)
       /\ ret.cls = FamilyOf(call.name, recv.cls)
       /\ ViewOf(call.name, ret) = call.value
       /\ ret.start = recv.start
       /\ ret.stop = recv.stop

\* a loss mesh was turned into a division mesh
C6_Witness ==
    /\ call.name = "with_division"
    /\ recv.cls = "LossAdaptiveMeshLine"
    /\ recv.binding = None
    /\ call.value # None /\ call.minv = None /\ call.maxv = None
    /\ IsMesh(ret)
    /\ ret.cls = "DivisionAdaptiveMeshLine"
    /\ ret.params.division = call.value

(* C7: with_start(s) and with_stop(t) give a mesh of the receiver's        *)
(* family whose start (resp. stop) is the new value, whose other endpoint *)
(* and whose stored parameters are the receiver's.                        *)
C7_EndpointWithers ==
    (call.name \in {"with_start", "with_stop"})
    => /\ ~IsErr(ret)
       /\ recv.binding = None => IsMesh(ret)
       /\ LET m == MeshOf(ret)
          IN  /\ m.cls = recv.cls
              /\ m.params = recv.params
              /\ call.name = "with_start" =>
                    m.start = call.value /\ m.stop = recv.stop
              /\ call.name = "with_stop" =>
                    m.stop = call.value /\ m.start = recv.start

\* a density mesh was stretched: same density, another division
C7_Witness ==
    /\ call.name = "with_stop"
    /\ recv.cls = "DensityUniformMeshLine"
    /\ IsMesh(ret)
    /\ ret.stop = call.value
    /\ ret.stop # recv.stop
    /\ ret.params.density = recv.params.density
    /\ division(ret) # division(recv)

(* C8: a wither called with a value on a mesh read from a container       *)
(* returns a container, whose mesh is of the family of the named view,    *)
(* with that view equal to the value when no bound is given.              *)
C8_BindingTransfer ==
    (/\ call.name \in Withers
     /\ recv.binding # None
     /\ call.value # None)
    => /\ IsContainer(ret)
       /\ ret.cls = recv.binding.owner
       /\ IsMesh(ret.mesh)
       /\ ret.mesh.cls = FamilyOf(call.name, recv.cls)
       /\ (call.minv = None /\ call.maxv = None)
            => ViewOf(call.name, ret.mesh) = call.value

\* a bound density mesh gave a container holding a resolution mesh
C8_Witness ==
    /\ call.name = "with_resolution"
    /\ recv.cls = "DensityUniformMeshLine"
    /\ recv.binding # None
    /\ call.value # None
    /\ IsContainer(ret)
    /\ ret.mesh.cls = "ResolutionUniformMeshLine"
    /\ ret.mesh.params.resolution = call.value

DerivedDivisionClasses ==
    {"DensityUniformMeshLine", "ResolutionUniformMeshLine"}

(* C9, as claimed: reading the division of a density or resolution mesh   *)
(* with start == stop raises a division by zero.                          *)
C9_DegenerateDivisionRaises ==
    (/\ call.name = "division"
     /\ recv.cls \in DerivedDivisionClasses
     /\ recv.start = recv.stop)
    => ret = ZeroDivisionError

(* C9, amended: reading the division of a density or resolution mesh with *)
(* start == stop gives 1, and raises only for a resolution mesh of        *)
(* resolution 0; what raises on the degenerate interval is the derived    *)
(* density of a division or resolution mesh.                              *)
C9_DegenerateDivisionIsOne ==
    /\ (/\ call.name = "division"
        /\ recv.cls \in DerivedDivisionClasses
        /\ recv.start = recv.stop)
       => IF recv.cls = "ResolutionUniformMeshLine"
             /\ recv.params.resolution = Zero
          THEN ret = ZeroDivisionError
          ELSE ret = int(1)
    /\ (/\ call.name = "density"
        /\ recv.cls \in {"DivisionUniformMeshLine", "ResolutionUniformMeshLine"}
        /\ recv.start = recv.stop)
       => ret = ZeroDivisionError

\* the division of a degenerate density mesh was read, and is 1
C9_Witness ==
    /\ ReadOn("division", "DensityUniformMeshLine")
    /\ recv.start = recv.stop
    /\ Lt(Zero, recv.params.density)
    /\ ret = int(1)

(* C10, as claimed: on a uniform mesh with division >= 2 and length > 0,  *)
(* the gap between adjacent points is the mesh's resolution.              *)
C10_GapIsResolution ==
    (/\ call.name = "points"
     /\ recv.cls \in UniformClasses
     /\ IsNum(division(recv))
     /\ IF IsNum(division(recv)) THEN division(recv).n >= 2 ELSE FALSE
     /\ Lt(Zero, length(recv)))
    => \A i \in 1..(Len(ret.array) - 1) :
          abs(Gaps(ret.array)[i]) = resolution(recv)

(* C14: clip applies the minimum, then the maximum: with min > max it      *)
(* gives max whatever the value, and a wither called with a value and     *)
(* min > max returns, without error, a mesh whose view is max (called     *)
(* without a value it does the same unless reading the view raises).      *)
C14_InvertedBoundsGiveMax ==
    (/\ call.name \in Withers
     /\ call.minv # None /\ call.maxv # None
     /\ IF call.minv # None /\ call.maxv # None
        THEN Lt(call.maxv, call.minv) ELSE FALSE)
    => LET v == IF call.value = None THEN ViewOf(call.name, recv)
                ELSE call.value
       IN  IF IsErr(v) THEN call.value = None /\ ret = v
           ELSE /\ clip(v, call.minv, call.maxv) = call.maxv
                /\ ~IsErr(ret)
                /\ ViewOf(call.name, MeshOf(ret)) = call.maxv

\* a value above both bounds, the minimum above the maximum, was clipped
\* to the maximum
C14_Witness ==
    /\ call.name = "with_density"
    /\ call.value # None /\ call.minv # None /\ call.maxv # None
    /\ Lt(call.maxv, call.minv)
    /\ Lt(call.minv, call.value)
    /\ IsMesh(ret)
    /\ ret.params.density = call.maxv

(* C15: UniformMeshLine.with_params gives a DivisionUniformMeshLine when   *)
(* the overrides contain division, whatever else they contain; otherwise  *)
(* a DensityUniformMeshLine when they contain density; otherwise a        *)
(* ResolutionUniformMeshLine when they contain resolution; otherwise a    *)
(* mesh of the receiver's family.                                         *)
C15_OverridePriority ==
    (call.name = "with_params" /\ recv.cls \in UniformClasses)
    => LET keys == DOMAIN call.value.kwargs
       IN  /\ ~IsErr(ret)
           /\ MeshOf(ret).cls =
                 (IF "division" \in keys THEN "DivisionUniformMeshLine"
                  ELSE IF "density" \in keys THEN "DensityUniformMeshLine"
                  ELSE IF "resolution" \in keys
                       THEN "ResolutionUniformMeshLine"
                  ELSE recv.cls)

\* all three views were overridden at once on a resolution mesh
C15_Witness ==
    /\ call.name = "with_params"
    /\ recv.cls = "ResolutionUniformMeshLine"
    /\ DOMAIN call.value.kwargs = {"division", "density", "resolution"}
    /\ IsMesh(ret)
    /\ ret.cls = "DivisionUniformMeshLine"
    /\ ret.params.division = call.value.kwargs.division

\* the last call was a wither without value and without bounds
NoArgWither(name) ==
    /\ call.name = name
    /\ call.value = None /\ call.minv = None /\ call.maxv = None

\* the receiver has a positive length and at least one point
Measurable(m) ==
    /\ m.cls \in UniformClasses
    /\ Lt(Zero, length(m))
    /\ IF IsNum(division(m)) THEN Le(int(1), division(m)) ELSE FALSE

\* the family that owns the view a wither is named after
OwnerOf(name) ==
    CASE name = "with_division"   -> "DivisionUniformMeshLine"
      [] name = "with_density"    -> "DensityUniformMeshLine"
      [] name = "with_resolution" -> "ResolutionUniformMeshLine"

(* C17: on a uniform mesh of positive length with at least one point,     *)
(* with_density() or with_resolution() without arguments, called on a     *)
(* mesh that does not own that view, returns a mesh with exactly one      *)
(* point more, so that alternating them never comes back to the same      *)
(* division; a wither without arguments on the view the mesh owns, and    *)
(* with_division(), return a mesh with the same division.                 *)
C17_NoArgWitherAddsOnePoint ==
    \A name \in UniformWithers :
        (NoArgWither(name) /\ Measurable(recv))
        => /\ ~IsErr(ret)
           /\ division(MeshOf(ret)) =
                 (IF name # "with_division" /\ recv.cls # OwnerOf(name)
                  THEN Add(division(recv), int(1))
                  ELSE division(recv))

\* two withers in a row each added a point: a density mesh, itself made
\* by with_density() from a mesh of another family, was sent through
\* with_resolution()
C17_Witness ==
    /\ NoArgWither("with_resolution")
    /\ recv.cls = "DensityUniformMeshLine"
    /\ Measurable(recv)
    /\ Le(int(3), division(recv))
    /\ recv.params.density = TrueDiv(Sub(division(recv), int(1)), length(recv))
    /\ IsMesh(ret)
    /\ ret.cls = "ResolutionUniformMeshLine"
    /\ division(ret) = Add(division(recv), int(1))

\* start, stop and length of a mesh
Extent(m) == <<m.start, m.stop, length(m)>>

(* C16: along a chain of view withers from a mesh m, every mesh produced   *)
(* has the start, the stop and the length of m, and no call changes m or  *)
(* a mesh produced before it.                                             *)
C16_ChainKeepsExtent ==
    [][/\ \A i \in DOMAIN objs : i \in DOMAIN objs' /\ objs'[i] = objs[i]
       /\ \A i \in DOMAIN objs' : Extent(objs'[i]) = Extent(objs[1])]_vars

\* two withers were chained from a mesh of positive length, through three
\* families
C16_Witness ==
    /\ Len(objs) = 3
    /\ Lt(Zero, length(objs[1]))
    /\ objs[1].cls = "DivisionUniformMeshLine"
    /\ objs[2].cls = "DensityUniformMeshLine"
    /\ objs[3].cls = "ResolutionUniformMeshLine"
    /\ objs[3].binding = None
    /\ mesh = objs[3]

\* evaluate was called on a mesh of class cls and is at position p
EvaluateAt(p, cls) ==
    /\ pc = p
    /\ call.name = "evaluate"
    /\ recv.cls = cls

(* C11: what evaluate returns on an adaptive mesh of either family is a    *)
(* pair (points, values) of the same length, the points strictly          *)
(* ascending (sorted, no abscissa twice) and all within [start, stop],    *)
(* and values[i] is the function at points[i].                            *)
C11_EvaluateReturnsSortedSamples ==
    (pc = "done" /\ call.name = "evaluate")
    => /\ Len(ret.array) = 2
       /\ LET pts == ret.array[1]
              vals == ret.array[2]
          IN  /\ Len(vals) = Len(pts)
              /\ \A i \in DOMAIN pts :
                    /\ Le(recv.start, pts[i])
                    /\ Le(pts[i], recv.stop)
                    /\ vals[i] = Apply(call.value.function, pts[i])
                    /\ \A j \in DOMAIN pts :
                          i < j => Lt(pts[i], pts[j])

\* a loss mesh returned four unevenly spaced samples of the square
C11_Witness ==
    /\ EvaluateAt("done", "LossAdaptiveMeshLine")
    /\ call.value.function = "square"
    /\ Len(ret.array) = 2
    /\ Len(ret.array[1]) = 4
    /\ Sub(ret.array[1][2], ret.array[1][1])
          # Sub(ret.array[1][3], ret.array[1][2])
    /\ ret.array[2][3] = Mul(ret.array[1][3], ret.array[1][3])
    /\ ret.array[2][3] # ret.array[1][3]

\* evaluate is running on a division mesh of at least two points
C12_Running ==
    /\ EvaluateAt("running", "DivisionAdaptiveMeshLine")
    /\ Le(int(2), recv.params.division)

\* evaluate has returned as many points as the division of its mesh
C12_Returned ==
    /\ pc = "done"
    /\ Len(ret.array[1]) = recv.params.division.n

\* a turn of the loop adds a point while there are fewer than division,
\* and the loop is left when there are division
C12_Loop ==
    C12_Running
    => IF npoints(learner) < recv.params.division.n
       THEN /\ pc' = "running"
            /\ npoints(learner') = npoints(learner) + 1
       ELSE /\ pc' = "done"
            /\ npoints(learner) = recv.params.division.n
            /\ learner' = learner

(* C12: on a DivisionAdaptiveMeshLine with start < stop and division >= 2, *)
(* evaluate of a total function returns; until then each turn of the      *)
(* loop adds one point, and the loop is left at the first turn where the  *)
(* number of points is division, so that exactly division points are     *)
(* returned.                                                              *)
C12_DivisionEvaluateTerminates ==
    /\ C12_Running ~> C12_Returned
    /\ [][C12_Loop]_vars

\* a division mesh returned its four points, not evenly spaced
C12_Witness ==
    /\ EvaluateAt("done", "DivisionAdaptiveMeshLine")
    /\ recv.params.division = int(4)
    /\ Lt(recv.start, recv.stop)
    /\ Len(ret.array[1]) = 4
    /\ Sub(ret.array[1][2], ret.array[1][1])
          # Sub(ret.array[1][4], ret.array[1][3])

(* C13: on a LossAdaptiveMeshLine the loop of evaluate asks for one more   *)
(* point as long as the loss of some interval is above the target, and    *)
(* returns, asking for nothing more, as soon as every interval's loss is  *)
(* at or below it: on return every loss is at or below the target. The    *)
(* division of the mesh has no part in it.                                *)
C13_LossEvaluateStopsAtTarget ==
    [][EvaluateAt("running", "LossAdaptiveMeshLine")
       => IF LossAtMost(learner, recv.params.loss)
          THEN /\ pc' = "done"
               /\ learner' = learner
               /\ Len(ret'.array[1]) = npoints(learner)
          ELSE /\ pc' = "running"
               /\ npoints(learner') = npoints(learner) + 1]_vars

\* a loss mesh of division 2 returned five points, every loss at or below
\* its target
C13_Witness ==
    /\ EvaluateAt("done", "LossAdaptiveMeshLine")
    /\ recv.params.division = int(2)
    /\ Len(ret.array[1]) = MaxSamples
    /\ LossAtMost(learner, recv.params.loss)
    /\ Lt(recv.params.loss, int(1))

====
